---------------------------- MODULE Spec2Model ----------------------------
(***************************************************************************)
(* A model of the byzantine node: gossip membership (peer table, gossip    *)
(* cache, pruner) of one node, and the recursive consensus of a cluster.   *)
(***************************************************************************)
EXTENDS Integers, Sequences, FiniteSets, TLC

(***************************************************************************)
(* Program constants                                                       *)
(***************************************************************************)
FORWARD_AMOUNT == 3
PRUNE_INTERVAL == 15
PRUNE_TIMEOUT == 20
CONSENSUS_TIME == 10
\* CONSENSUS_WAIT_FOR = 0.8, as the fraction WAIT_FOR_NUM / WAIT_FOR_DEN
WAIT_FOR_NUM == 8
WAIT_FOR_DEN == 10
DB_SIZE == 5
\* init_db abandons at count >= 10
GIVE_UP == 10

(***************************************************************************)
(* Bounds of the model                                                     *)
(***************************************************************************)
\* remote originator names 1..MaxGossipNames in the dedup specification
MaxGossipNames == 1
\* messageIDs 1..MaxIds
MaxIds == 2
\* concurrent per-datagram handler threads in the dedup specification
MaxHandlers == 2
\* datagrams received in one run of the dedup specification
MaxDatagrams == 3
\* remote names 1..MaxFwdNames in the forwarding specification
MaxFwdNames == 4
\* datagrams received in one run of the forwarding specification
MaxFwdDatagrams == 5
\* remote names 1..MaxPruneNames in the pruning specification
MaxPruneNames == 1
\* seconds the clock runs in the pruning specification
MaxPruneTime == 46

\* console `consensus` commands in one run of a consensus specification
MaxRuns == 1
\* SET datagrams handled in one run of the consensus specification
MaxSets == 1
\* seconds the clock runs in the consensus specification
MaxConsTime == 10
\* Peer objects created for the table of the bootstrapping node
MaxJoins == 1
\* QUERY-REPLY datagrams waiting in the reply queue
MaxQueue == 1

\* the local node's name (self.name); remote names are 1, 2, ...
Me == 0
NoPeer == -1
NoId == 0
NoData == [command |-> "NONE", name |-> NoPeer, messageID |-> NoId]
NoGossip == [peer_name |-> NoPeer, id |-> NoId]
NoForward == [snapshot |-> {}, forwards |-> << >>, replies |-> << >>]

Min(a, b) == IF a < b THEN a ELSE b

VARIABLES
    now,          \* time(), in seconds
    peers,        \* self.peers.obj: name -> last (Peer.last)
    gossips,      \* self.gossips.obj: the list of cached Gossip records
    gossipsLock,  \* self.gossips.lock: 0 free, else the handler holding it
    hpc,          \* per handler thread: where it is
    hdata,        \* per handler thread: the decoded datagram
    hpeers,       \* per handler thread: the snapshot get_peers() gave it
    hlast,        \* per handler thread: local `last` of gossip_received
    hpeer,        \* per handler thread: local `peer` of gossip_received
    received,     \* number of datagrams the selector loop has read
    admits,       \* history: (name, id) -> number of admissions
    fwdEvents,    \* history: (name, id) -> number of forwarding events
    gossipReplies,\* history: (name, id) -> number of GOSSIP_REPLY sent
    lastAdmit,    \* history: name -> messageID admitted last
    lastForward,  \* history: snapshot and datagrams of the last forwarding
    selfTalk,     \* history: update_peers has met the local name
    prunerPc,     \* the gardener thread: "prune", "sleep" or "stopped"
    pruneWake,    \* when the gardener's sleep(PRUNE_INTERVAL) ends
    gardener_quit,\* self.gardener_quit (an Event)
    kicked,       \* stale_peers of the gardener's last pass
    db,           \* per node: Database._db.obj, a list of DB_SIZE words
    lying,        \* per node: Database.lying
    known,        \* per node: the peers of its table
    consensuses,  \* per node: the ids registered in self.consensuses.obj
    inst,         \* per node: the Consensus its driver thread runs
    net,          \* datagrams in flight
    runs,         \* number of console `consensus` commands so far
    sets,         \* number of SET datagrams handled so far
    fin,          \* history: per node, its driver's last finished run
    consoleOut,   \* history: the words sent back to the operator
    boot,         \* the init_db thread of node 1: its position and locals
    peerObjs,     \* the Peer objects in the table init_db chooses from
    joins,        \* number of Peer objects created for that table so far
    queue,        \* self.query_reply_queue of node 1
    tpc,          \* per task of the lock model: the step it is at
    lockOwner,    \* per lock: the task holding it, or "free"
    stop          \* the _stop chain: where it is and what it has closed or set

memVars == <<now, peers, gossips, gossipsLock, hpc, hdata, hpeers, hlast,
             hpeer, received, admits, fwdEvents, gossipReplies, lastAdmit,
             lastForward, selfTalk, prunerPc, pruneWake, gardener_quit,
             kicked>>

bootVars == <<boot, peerObjs, joins, queue>>

lockVars == <<tpc, lockOwner>>

stopVars == <<stop>>

\* what the consensus actions leave alone
memRest == <<peers, gossips, gossipsLock, hpc, hdata, hpeers, hlast, hpeer,
             received, admits, fwdEvents, gossipReplies, lastAdmit,
             lastForward, selfTalk, prunerPc, pruneWake, gardener_quit,
             kicked, bootVars, lockVars, stopVars>>

\* what the membership actions leave alone
consVars == <<db, lying, known, consensuses, inst, net, runs, sets, fin,
              consoleOut, bootVars, lockVars, stopVars>>

vars == <<memVars, consVars>>

AllHandlers == 1..MaxHandlers
\* the forwarding specification has the most names
AllNames == 0..MaxFwdNames
AllIds == 1..MaxIds
Pairs == AllNames \X AllIds

(***************************************************************************)
(* Pure helpers                                                            *)
(***************************************************************************)
\* the first cached record of an originator (for g in self.gossips.obj ...)
RECURSIVE FindLast(_, _)
FindLast(list, name) ==
    IF list = << >> THEN NoGossip
    ELSE IF Head(list).peer_name = name THEN Head(list)
    ELSE FindLast(Tail(list), name)

\* list.remove(x): drops the first element equal to x
RECURSIVE ListRemove(_, _)
ListRemove(list, x) ==
    IF list = << >> THEN << >>
    ELSE IF Head(list) = x THEN Tail(list)
    ELSE <<Head(list)>> \o ListRemove(Tail(list), x)

\* PeerServer.update_peers without the self check
UpdatePeersNoSelfCheck(tbl, name, t) ==
    IF name \notin DOMAIN tbl
    THEN [tbl |-> (name :> t) @@ tbl, ret |-> name]
    ELSE [tbl |-> [tbl EXCEPT ![name] = t], ret |-> name]

\* an update_peers that stamps the entry with a time read a second earlier
UpdatePeersEarly(tbl, name, t) ==
    IF name = Me THEN [tbl |-> tbl, ret |-> NoPeer]
    ELSE IF name \notin DOMAIN tbl
         THEN [tbl |-> (name :> t) @@ tbl, ret |-> name]
         ELSE [tbl |-> [tbl EXCEPT ![name] = t - 1], ret |-> name]

\* PeerServer.update_peers: the new table and the returned peer (or None)
UpdatePeers(tbl, name, t) ==
    IF name = Me THEN [tbl |-> tbl, ret |-> NoPeer]
    ELSE IF name \notin DOMAIN tbl
         THEN [tbl |-> (name :> t) @@ tbl, ret |-> name]
         ELSE [tbl |-> [tbl EXCEPT ![name] = t], ret |-> name]

\* sequences of length k over S
Tuples(S, k) == [1..k -> S]

\* random.choices: k draws with replacement
SampleWithReplacement(S, k) == Tuples(S, k)

\* random.sample(peers, k): k draws without replacement
Sample(S, k) ==
    {s \in Tuples(S, k) : \A i, j \in 1..k : i # j => s[i] # s[j]}

\* the admission test of gossip_received
Fresh(last, id) == last = NoGossip \/ last.id # id

(***************************************************************************)
(* The cluster of the consensus specifications                             *)
(***************************************************************************)
Nodes == {1, 2, 3, 4}
\* the index the operator runs consensus on
Indexes == {0}
\* Python's None as a database word or a datagram value
None == "<None>"
\* the TypeError of None + " lie"
TypeError == "<TypeError>"
NoId2 == <<0, 0>>
\* reply address of a consensus started from the console
NoSrc == [node |-> 0, id |-> NoId2]

EmptyDb == [i \in 1..DB_SIZE |-> None]

\* a get that appends the suffix whether lying or not
GetTainted(dbn, ly, i) ==
    IF dbn[i + 1] = None THEN TypeError ELSE dbn[i + 1] \o " lie"

\* Database.get: the word at index, with the suffix when lying
Get(dbn, ly, i) ==
    IF ly
    THEN IF dbn[i + 1] = None THEN TypeError ELSE dbn[i + 1] \o " lie"
    ELSE dbn[i + 1]

\* Database.get read without the lying suffix
GetNoLie(dbn, i) == dbn[i + 1]

\* Database.set
DbSet(dbn, i, w) == [dbn EXCEPT ![i + 1] = w]

\* collections.Counter, as the list of its (value, count) items in
\* insertion order
CounterTotal(c) ==
    LET RECURSIVE Sum(_)
        Sum(k) == IF k = 0 THEN 0 ELSE c[k].cnt + Sum(k - 1)
    IN Sum(Len(c))

\* Counter[v] += 1
CounterAdd(c, v) ==
    IF \E k \in 1..Len(c) : c[k].val = v
    THEN [k \in 1..Len(c) |->
            IF c[k].val = v THEN [val |-> v, cnt |-> c[k].cnt + 1] ELSE c[k]]
    ELSE Append(c, [val |-> v, cnt |-> 1])

\* a plurality that takes the least frequent item
LeastCommon(c) ==
    LET k == CHOOSE k \in 1..Len(c) :
                /\ \A j \in 1..Len(c) : c[j].cnt >= c[k].cnt
                /\ \A j \in 1..(k - 1) : c[j].cnt > c[k].cnt
    IN c[k].val

\* a plurality that takes the last of the tied items
LastCommon(c) ==
    LET k == CHOOSE k \in 1..Len(c) :
                /\ \A j \in 1..Len(c) : c[j].cnt <= c[k].cnt
                /\ \A j \in (k + 1)..Len(c) : c[j].cnt < c[k].cnt
    IN c[k].val

\* Counter.most_common(1)[0][0]: the first item, in insertion order, whose
\* count is the highest
MostCommon(c) ==
    LET k == CHOOSE k \in 1..Len(c) :
                /\ \A j \in 1..Len(c) : c[j].cnt <= c[k].cnt
                /\ \A j \in 1..(k - 1) : c[j].cnt < c[k].cnt
    IN c[k].val

\* the Counter a sequence of arrivals builds
RECURSIVE CounterOf(_)
CounterOf(seq) ==
    IF seq = << >> THEN << >>
    ELSE CounterAdd(CounterOf(SubSeq(seq, 1, Len(seq) - 1)), seq[Len(seq)])

\* ConsensusServer.determine_OM
DetermineOM(tbl) == Cardinality(tbl) \div 3

\* a wait that lasts until `due`
WakeAtDue(t, due) == WAIT_FOR_DEN * due

\* Consensus.execute: the end of wait((due - time()) * CONSENSUS_WAIT_FOR),
\* times WAIT_FOR_DEN
WakeAt(t, due) == WAIT_FOR_DEN * t + WAIT_FOR_NUM * (due - t)

NoInst == [pc |-> "idle", gen |-> 0, id |-> NoId2, OM |-> 0, index |-> 0,
           value |-> None, received |-> None, peers |-> {}, due |-> 0,
           replies |-> << >>, done_waiting |-> FALSE, src |-> NoSrc,
           start |-> 0, wake |-> 0, arrivals |-> << >>, result |-> None,
           timed_out |-> FALSE]

NoFin == [runs |-> 0, arrivals |-> << >>, received |-> None,
          result |-> None, ret |-> None, start |-> 0, end |-> 0,
          npeers |-> 0, index |-> 0, console |-> FALSE, timed_out |-> FALSE]

(***************************************************************************)
(* Initial state: after Server.__init__ and _start                         *)
(***************************************************************************)
MemInit ==
    /\ now = 0
    /\ peers = << >>
    /\ gossips = << >>
    /\ gossipsLock = 0
    /\ hpc = [h \in AllHandlers |-> "idle"]
    /\ hdata = [h \in AllHandlers |-> NoData]
    /\ hpeers = [h \in AllHandlers |-> {}]
    /\ hlast = [h \in AllHandlers |-> NoGossip]
    /\ hpeer = [h \in AllHandlers |-> NoPeer]
    /\ received = 0
    /\ admits = [p \in Pairs |-> 0]
    /\ fwdEvents = [p \in Pairs |-> 0]
    /\ gossipReplies = [p \in Pairs |-> 0]
    /\ lastAdmit = [n \in AllNames |-> NoId]
    /\ lastForward = NoForward
    /\ selfTalk = FALSE
    /\ prunerPc = "prune"
    /\ pruneWake = 0
    /\ gardener_quit = FALSE
    /\ kicked = {}

\* no consensus under way, nothing in flight
\* a Peer object of the table init_db chooses from: the node, and which
\* of the objects created for the table it is (objects compare by identity)
NoPeerObj == <<0, 0>>
\* a decoded QUERY-REPLY: whether it is a list, and its items
NoReply == [list |-> FALSE, items |-> << >>]

\* init_db before its first iteration: count = 0, bad_peers = set()
NoBoot == [pc |-> "pick", count |-> 0, bad_peers |-> {}, peer |-> NoPeerObj,
           db |-> NoReply, failed |-> 0, resets |-> 0, overwrote |-> FALSE]

\* the tasks and the locks of the lock model
\* the selector loop runs: nothing is closed and no quit flag is set
NoStop == [phase |-> "running", depth |-> 0, cli_closed |-> FALSE,
           sock_closed |-> FALSE, gossip_quit |-> FALSE]

Tasks == {"recv", "gossip", "gossip_received", "send_set", "execute",
          "consensus_received", "init_db", "query_received", "prune_peers",
          "gossip_reply_received", "consensus_reply_received"}
Locks == {"sock", "peers", "gossips", "db", "consensuses", "replies"}

ConsIdle ==
    /\ boot = NoBoot
    /\ peerObjs = {}
    /\ joins = 0
    /\ queue = << >>
    /\ tpc = [t \in Tasks |-> 0]
    /\ lockOwner = [l \in Locks |-> "free"]
    /\ stop = NoStop
    /\ consensuses = [n \in Nodes |-> {}]
    /\ inst = [n \in Nodes |-> NoInst]
    /\ net = {}
    /\ runs = 0
    /\ sets = 0
    /\ fin = [n \in Nodes |-> NoFin]
    /\ consoleOut = << >>

Init ==
    /\ MemInit
    /\ ConsIdle
    /\ db = [n \in Nodes |-> EmptyDb]
    /\ lying = [n \in Nodes |-> FALSE]
    /\ known = [n \in Nodes |-> {}]

(***************************************************************************)
(* The selector loop reads a datagram and starts a handler thread, which   *)
(* decodes it and dispatches on its command (Server.handle_message).       *)
(* GOSSIP takes the peer snapshot and goes on to gossip_received;          *)
(* GOSSIP_REPLY runs update_peers; anything else is logged and dropped.    *)
(* Threads are anonymous: a new one takes the lowest free slot.            *)
(***************************************************************************)
\* the handler thread ends: its locals are gone
Finished(h) ==
    /\ hpc' = [hpc EXCEPT ![h] = "idle"]
    /\ hdata' = [hdata EXCEPT ![h] = NoData]
    /\ hpeers' = [hpeers EXCEPT ![h] = {}]
    /\ hlast' = [hlast EXCEPT ![h] = NoGossip]
    /\ hpeer' = [hpeer EXCEPT ![h] = NoPeer]

FreeSlots == {h \in AllHandlers : hpc[h] = "idle"}

HandleMessage(h, d, max) ==
    /\ received < max
    /\ h \in FreeSlots
    /\ \A k \in FreeSlots : h <= k
    /\ received' = received + 1
    /\ IF d.command = "GOSSIP"
       THEN /\ hdata' = [hdata EXCEPT ![h] = d]
            /\ hpeers' = [hpeers EXCEPT ![h] = DOMAIN peers]
            /\ hpc' = [hpc EXCEPT ![h] = "lock"]
            /\ UNCHANGED <<peers, selfTalk>>
       ELSE IF d.command = "GOSSIP_REPLY"
       THEN /\ peers' = UpdatePeers(peers, d.name, now).tbl
            /\ selfTalk' = (selfTalk \/ d.name = Me)
            /\ UNCHANGED <<hdata, hpeers, hpc>>
       ELSE UNCHANGED <<peers, selfTalk, hdata, hpeers, hpc>>
    /\ UNCHANGED consVars
    /\ UNCHANGED <<now, gossips, gossipsLock, hlast, hpeer, admits,
                   fwdEvents, gossipReplies, lastAdmit, lastForward,
                   prunerPc, pruneWake, gardener_quit, kicked>>

\* the scan of gossip_received and its admission test: `last` is the first
\* cached record of the originator
ScanResult(h) ==
    LET last == FindLast(gossips, hdata[h].name) IN
    /\ IF Fresh(last, hdata[h].messageID)
       THEN /\ hpc' = [hpc EXCEPT ![h] = "admit"]
            /\ hlast' = [hlast EXCEPT ![h] = last]
            /\ gossipsLock' = h
            /\ UNCHANGED <<hdata, hpeers, hpeer>>
       ELSE /\ Finished(h)
            /\ gossipsLock' = 0
    /\ UNCHANGED consVars
    /\ UNCHANGED <<now, peers, gossips, received, admits, fwdEvents,
                   gossipReplies, lastAdmit, lastForward, selfTalk, prunerPc,
                   pruneWake, gardener_quit, kicked>>

\* gossip_received scanning the cache without taking self.gossips.lock
ScanNoLock(h) ==
    /\ hpc[h] = "lock"
    /\ ScanResult(h)

\* gossip_received: with self.gossips.lock, the scan for the originator's
\* record; a duplicate leaves the critical section at once
Scan(h) ==
    /\ hpc[h] = "lock"
    /\ gossipsLock = 0
    /\ ScanResult(h)

\* gossip_received: update_peers, then the cache append and the removal of
\* the older record, then the lock is released
Admit(h) ==
    /\ hpc[h] = "admit"
    /\ LET d == hdata[h]
           u == UpdatePeers(peers, d.name, now)
           g == [peer_name |-> d.name, id |-> d.messageID]
       IN
       /\ peers' = u.tbl
       /\ IF u.ret # NoPeer
          THEN /\ gossips' = IF hlast[h] # NoGossip
                             THEN ListRemove(Append(gossips, g), hlast[h])
                             ELSE Append(gossips, g)
               /\ admits' = [admits EXCEPT ![<<d.name, d.messageID>>] = @ + 1]
               /\ lastAdmit' = [lastAdmit EXCEPT ![d.name] = d.messageID]
               /\ hpc' = [hpc EXCEPT ![h] = "forward"]
               /\ hpeer' = [hpeer EXCEPT ![h] = u.ret]
               /\ hlast' = [hlast EXCEPT ![h] = NoGossip]
               /\ UNCHANGED <<hdata, hpeers, selfTalk>>
          ELSE /\ UNCHANGED <<gossips, admits, lastAdmit>>
               /\ selfTalk' = TRUE
               /\ Finished(h)
    /\ gossipsLock' = 0
    /\ UNCHANGED consVars
    /\ UNCHANGED <<now, received, fwdEvents, gossipReplies, lastForward,
                   prunerPc, pruneWake, gardener_quit, kicked>>

\* gossip_received: the sample, Gossip.forward and Peer.reply_gossip, with
\* self.sock.lock
Forward(h) ==
    /\ hpc[h] = "forward"
    /\ LET d == hdata[h]
           p == <<d.name, d.messageID>>
       IN
       /\ \E sample \in Sample(hpeers[h],
                               Min(FORWARD_AMOUNT, Cardinality(hpeers[h]))) :
             lastForward' = [snapshot |-> hpeers[h],
                             forwards |-> sample,
                             replies |-> <<hpeer[h]>>]
       /\ fwdEvents' = [fwdEvents EXCEPT ![p] = @ + 1]
       /\ gossipReplies' = [gossipReplies EXCEPT ![p] = @ + 1]
    /\ Finished(h)
    /\ UNCHANGED consVars
    /\ UNCHANGED <<now, peers, gossips, gossipsLock, received, admits,
                   lastAdmit, selfTalk, prunerPc, pruneWake, gardener_quit,
                   kicked>>

GossipsOf(names, ids) == [command : {"GOSSIP"}, name : names, messageID : ids]

GossipRepliesOf(names) ==
    [command : {"GOSSIP_REPLY"}, name : names, messageID : {NoId}]

(***************************************************************************)
(* Specification of gossip deduplication: concurrent handlers              *)
(***************************************************************************)
GossipHandlers == 1..MaxHandlers
GossipDatagrams == GossipsOf(0..MaxGossipNames, 1..MaxIds)

NextGossip ==
    \E h \in GossipHandlers :
        \/ \E d \in GossipDatagrams : HandleMessage(h, d, MaxDatagrams)
        \/ Scan(h)
        \/ Admit(h)
        \/ Forward(h)

Spec == Init /\ [][NextGossip]_vars

(***************************************************************************)
(* Specification of forwarding: one handler at a time, more names          *)
(***************************************************************************)
FwdDatagrams == GossipsOf(1..MaxFwdNames, {1}) \cup GossipRepliesOf(1..MaxFwdNames)

NextForward ==
    \/ \E d \in FwdDatagrams : HandleMessage(1, d, MaxFwdDatagrams)
    \/ Scan(1)
    \/ Admit(1)
    \/ Forward(1)

SpecForward == Init /\ [][NextForward]_vars

(***************************************************************************)
(* The gardener thread (PeerServer.prune_peers) and the clock              *)
(***************************************************************************)
\* a stale test that is one second late
StaleLate(tbl, t) == {n \in DOMAIN tbl : t - tbl[n] > PRUNE_TIMEOUT + 1}

\* prune_peers: the names whose age exceeds PRUNE_TIMEOUT
Stale(tbl, t) == {n \in DOMAIN tbl : t - tbl[n] > PRUNE_TIMEOUT}

\* prune_peers: one pass under self.peers.lock, then sleep(PRUNE_INTERVAL)
PrunePass ==
    /\ prunerPc = "prune"
    /\ LET stale == Stale(peers, now) IN
       /\ kicked' = stale
       /\ peers' = [n \in (DOMAIN peers) \ stale |-> peers[n]]
    /\ prunerPc' = "sleep"
    /\ pruneWake' = now + PRUNE_INTERVAL
    /\ UNCHANGED consVars
    /\ UNCHANGED <<now, gossips, gossipsLock, hpc, hdata, hpeers, hlast,
                   hpeer, received, admits, fwdEvents, gossipReplies,
                   lastAdmit, lastForward, selfTalk, gardener_quit>>

\* prune_peers: the sleep is over; leave the loop when quit is set
PruneWake ==
    /\ prunerPc = "sleep"
    /\ now >= pruneWake
    /\ prunerPc' = IF gardener_quit THEN "stopped" ELSE "prune"
    /\ UNCHANGED consVars
    /\ UNCHANGED <<now, peers, gossips, gossipsLock, hpc, hdata, hpeers,
                   hlast, hpeer, received, admits, fwdEvents,
                   gossipReplies, lastAdmit, lastForward, selfTalk, pruneWake, gardener_quit, kicked>>

\* PeerServer._stop sets the quit flag of the gardener
StopGardener ==
    /\ ~gardener_quit
    /\ gardener_quit' = TRUE
    /\ UNCHANGED consVars
    /\ UNCHANGED <<now, peers, gossips, gossipsLock, hpc, hdata, hpeers,
                   hlast, hpeer, received, admits, fwdEvents,
                   gossipReplies, lastAdmit, lastForward, selfTalk, prunerPc, pruneWake, kicked>>

\* a GOSSIP_REPLY naming `name` is handled: gossip_reply_received
GossipReplyReceived(name) ==
    /\ peers' = UpdatePeers(peers, name, now).tbl
    /\ UNCHANGED consVars
    /\ UNCHANGED <<now, gossips, gossipsLock, hpc, hdata, hpeers, hlast,
                   hpeer, received, admits, fwdEvents, gossipReplies,
                   lastAdmit, lastForward, selfTalk, prunerPc, pruneWake, gardener_quit, kicked>>

\* a second passes; a sleeping thread wakes when its sleep is over and a
\* pass of the gardener takes no time
Tick(max) ==
    /\ now < max
    /\ prunerPc # "prune"
    /\ prunerPc = "sleep" => now < pruneWake
    /\ now' = now + 1
    /\ UNCHANGED consVars
    /\ UNCHANGED <<peers, gossips, gossipsLock, hpc, hdata, hpeers, hlast,
                   hpeer, received, admits, fwdEvents, gossipReplies,
                   lastAdmit, lastForward, selfTalk, prunerPc, pruneWake, gardener_quit, kicked>>

NextPrune ==
    \/ PrunePass
    \/ PruneWake
    \/ StopGardener
    \/ \E n \in 0..MaxPruneNames : GossipReplyReceived(n)
    \/ Tick(MaxPruneTime)

SpecPrune == Init /\ [][NextPrune]_vars

(***************************************************************************)
(* Claims on membership                                                    *)
(***************************************************************************)
RecordsOf(n) == {i \in 1..Len(gossips) : gossips[i].peer_name = n}

\* C1 (as claimed): every (name, messageID) pair of a remote originator is
\* admitted at most once, with at most one forwarding event and at most one
\* GOSSIP_REPLY, whatever other gossip of that originator arrives in between.
C1_PairAdmittedAtMostOnce ==
    \A p \in Pairs :
        p[1] # Me => /\ admits[p] <= 1
                     /\ fwdEvents[p] <= 1
                     /\ gossipReplies[p] <= 1

\* C2: no step of a handler of a GOSSIP whose name is the local name changes
\* the peer table or the gossip cache, and the handler admits nothing and
\* sends no forward and no GOSSIP_REPLY.
C2_SelfGossipChangesNothing ==
    [][\A h \in AllHandlers :
          (/\ hpc'[h] # hpc[h]
           /\ \/ (hdata[h].command = "GOSSIP" /\ hdata[h].name = Me)
              \/ (hdata'[h].command = "GOSSIP" /\ hdata'[h].name = Me))
          => /\ peers' = peers
             /\ gossips' = gossips
             /\ admits' = admits
             /\ lastForward' = lastForward
             /\ fwdEvents' = fwdEvents
             /\ gossipReplies' = gossipReplies]_vars

\* a self-named GOSSIP has been through update_peers while the node has
\* peers and cached gossip
C2_Witness ==
    /\ selfTalk
    /\ gossips # << >>
    /\ DOMAIN peers # {}

\* C3: the gossip cache holds at most one record per originator, and the
\* record of an originator carries the messageID admitted last for it.
C3_OneRecordPerOriginator ==
    \A n \in AllNames :
        /\ Cardinality(RecordsOf(n)) <= 1
        /\ \A i \in RecordsOf(n) : gossips[i].id = lastAdmit[n]
        /\ lastAdmit[n] # NoId => RecordsOf(n) # {}

\* two rounds of one originator were admitted, the second replacing the first
C3_Witness ==
    \E n \in AllNames :
        /\ admits[<<n, 1>>] > 0
        /\ admits[<<n, 2>>] > 0
        /\ Cardinality(RecordsOf(n)) = 1

Range(s) == {s[i] : i \in 1..Len(s)}

\* C4: an admitted GOSSIP is forwarded to exactly
\* min(FORWARD_AMOUNT, |snapshot|) peers, pairwise distinct, all of them in
\* the snapshot handle_message took, and is answered by one GOSSIP_REPLY.
C4_ForwardFanOut ==
    lastForward # NoForward =>
        LET f == lastForward.forwards IN
        /\ Len(f) = Min(FORWARD_AMOUNT, Cardinality(lastForward.snapshot))
        /\ \A i, j \in 1..Len(f) : i # j => f[i] # f[j]
        /\ Range(f) \subseteq lastForward.snapshot
        /\ Len(lastForward.replies) = 1

\* an admitted GOSSIP was forwarded from a snapshot of more than
\* FORWARD_AMOUNT peers
C4_Witness ==
    /\ Cardinality(lastForward.snapshot) > FORWARD_AMOUNT
    /\ Len(lastForward.forwards) = FORWARD_AMOUNT

\* C5: while the gardener runs, a peer whose last refresh is older than
\* PRUNE_TIMEOUT is out of the table no later than PRUNE_INTERVAL after its
\* age passed PRUNE_TIMEOUT.
C5_PrunedWithinInterval ==
    prunerPc # "stopped" =>
        \A n \in DOMAIN peers : now - peers[n] <= PRUNE_TIMEOUT + PRUNE_INTERVAL

\* the gardener removed a peer, and the peer has not come back
C5_Witness ==
    /\ prunerPc = "sleep"
    /\ kicked # {}
    /\ kicked \cap DOMAIN peers = {}
    /\ now = pruneWake

(***************************************************************************)
(* Consensus: the driver thread of do_consensus and the datagram handlers  *)
(***************************************************************************)
ConsensusMsg(n, p, c) ==
    [command |-> "CONSENSUS", to |-> p, from |-> n, OM |-> c.OM,
     index |-> c.index, value |-> c.value, peers |-> c.peers,
     messageID |-> c.id, due |-> c.due]

ReplyMsg(n, p, word, id) ==
    [command |-> "CONSENSUS-REPLY", to |-> p, from |-> n, value |-> word,
     replyTo |-> id]

\* a do_consensus that leaves the registry alone
DoConsensusUnregistered(n, OM, i, value, rcvd, prs, due, src) ==
    /\ inst' = [inst EXCEPT ![n] =
                  [NoInst EXCEPT !.pc = "registered", !.gen = inst[n].gen + 1,
                                 !.id = <<n, inst[n].gen + 1>>, !.OM = OM,
                                 !.index = i, !.value = value,
                                 !.received = rcvd, !.peers = prs,
                                 !.due = due, !.src = src, !.start = now]]
    /\ consensuses' = consensuses

\* a do_consensus whose Consensus counts the node's own word as `received`
DoConsensusOwnWord(n, OM, i, value, rcvd, prs, due, src) ==
    /\ inst' = [inst EXCEPT ![n] =
                  [NoInst EXCEPT !.pc = "registered", !.gen = inst[n].gen + 1,
                                 !.id = <<n, inst[n].gen + 1>>, !.OM = OM,
                                 !.index = i, !.value = value,
                                 !.received = value, !.peers = prs,
                                 !.due = due, !.src = src, !.start = now]]
    /\ consensuses' = [consensuses EXCEPT ![n] = @ \cup {<<n, inst[n].gen + 1>>}]

\* do_consensus, up to the registration: a new id, the Consensus object, and
\* its entry in self.consensuses
DoConsensus(n, OM, i, value, rcvd, prs, due, src) ==
    LET id == <<n, inst[n].gen + 1>> IN
    /\ inst' = [inst EXCEPT ![n] =
                  [NoInst EXCEPT !.pc = "registered", !.gen = inst[n].gen + 1,
                                 !.id = id, !.OM = OM, !.index = i,
                                 !.value = value, !.received = rcvd,
                                 !.peers = prs, !.due = due, !.src = src,
                                 !.start = now]]
    /\ consensuses' = [consensuses EXCEPT ![n] = @ \cup {id}]

\* console `consensus i` on node n: spawn_consensus, start_consensus and
\* do_consensus up to the registration.  A lying node whose word is None
\* dies in db.get.
StartConsensus(n, i) ==
    /\ runs < MaxRuns
    /\ inst[n].pc = "idle"
    /\ runs' = runs + 1
    /\ LET v == Get(db[n], lying[n], i) IN
       IF v = TypeError
       THEN UNCHANGED <<inst, consensuses>>
       ELSE DoConsensus(n, DetermineOM(known[n]), i, v, None, known[n],
                        now + CONSENSUS_TIME, NoSrc)
    /\ UNCHANGED <<now, db, lying, known, net, sets, fin, consoleOut>>
    /\ UNCHANGED memRest

\* Consensus.execute: one CONSENSUS datagram to every peer, of which the
\* network carries those to `delivered`; then the wait on done_waiting begins
SendTo(n, delivered) ==
    /\ inst[n].pc = "registered"
    /\ net' = net \cup {ConsensusMsg(n, p, inst[n]) : p \in delivered}
    /\ inst' = [inst EXCEPT ![n].pc = "wait",
                             ![n].wake = WakeAt(now, inst[n].due)]
    /\ UNCHANGED <<now, db, lying, known, consensuses, runs, sets, fin,
                   consoleOut>>
    /\ UNCHANGED memRest

\* the send on a network that loses nothing
Send(n) == SendTo(n, inst[n].peers)

\* the wait of Consensus.execute is over
WaitOver(n, timeouts) ==
    \/ inst[n].done_waiting
    \/ timeouts /\ WAIT_FOR_DEN * now >= inst[n].wake

\* Consensus.execute after the wait: the own `received` value is counted and
\* the plurality taken; do_consensus writes it to the database
Tally(n, timeouts) ==
    /\ inst[n].pc = "wait"
    /\ WaitOver(n, timeouts)
    /\ LET c == CounterAdd(inst[n].replies, inst[n].received)
           r == MostCommon(c)
       IN
       /\ inst' = [inst EXCEPT ![n].pc = "tallied", ![n].replies = c,
                                ![n].result = r,
                                ![n].timed_out = ~inst[n].done_waiting]
       /\ db' = [db EXCEPT ![n] = DbSet(db[n], inst[n].index, r)]
    /\ UNCHANGED <<now, lying, known, consensuses, net, runs, sets, fin,
                   consoleOut>>
    /\ UNCHANGED memRest

\* do_consensus: the id leaves the registry and the word is read back from
\* the database; then the caller sends it on: spawn_consensus to the
\* operator, consensus_received as a CONSENSUS-REPLY to the sender
Finish(n) ==
    /\ inst[n].pc = "tallied"
    /\ LET c == inst[n]
           ret == GetNoLie(db[n], c.index)
       IN
       /\ consensuses' = [consensuses EXCEPT ![n] = @ \ {c.id}]
       /\ fin' = [fin EXCEPT ![n] =
                    [runs |-> fin[n].runs + 1, arrivals |-> c.arrivals,
                     received |-> c.received, result |-> c.result,
                     ret |-> ret, start |-> c.start, end |-> now,
                     npeers |-> Cardinality(c.peers), index |-> c.index,
                     console |-> (c.src = NoSrc), timed_out |-> c.timed_out]]
       /\ IF c.src = NoSrc
          THEN /\ consoleOut' = Append(consoleOut, ret)
               /\ net' = net
          ELSE /\ net' = net \cup {ReplyMsg(n, c.src.node, ret, c.src.id)}
               /\ consoleOut' = consoleOut
       /\ inst' = [inst EXCEPT ![n] = [NoInst EXCEPT !.gen = c.gen]]
    /\ UNCHANGED <<now, db, lying, known, runs, sets>>
    /\ UNCHANGED memRest

\* a consensus_received that recurses with a deadline of its own
ConsensusReceivedOwnDue(m) ==
    /\ m.command = "CONSENSUS"
    /\ LET n == m.to IN
       IF m.OM = 0 \/ lying[n]
       THEN LET word == Get(db[n], lying[n], m.index) IN
            /\ net' = IF word = TypeError
                      THEN net \ {m}
                      ELSE (net \ {m}) \cup {ReplyMsg(n, m.from, word, m.messageID)}
            /\ UNCHANGED <<inst, consensuses>>
       ELSE /\ inst[n].pc = "idle"
            /\ DoConsensus(n, m.OM - 1, m.index, Get(db[n], FALSE, m.index),
                           m.value, m.peers, now + CONSENSUS_TIME,
                           [node |-> m.from, id |-> m.messageID])
            /\ net' = net \ {m}
    /\ UNCHANGED <<now, db, lying, known, runs, sets, fin, consoleOut>>
    /\ UNCHANGED memRest

\* a consensus_received that recurses at the level of the datagram
ConsensusReceivedSameOM(m) ==
    /\ m.command = "CONSENSUS"
    /\ LET n == m.to IN
       IF m.OM = 0 \/ lying[n]
       THEN LET word == Get(db[n], lying[n], m.index) IN
            /\ net' = IF word = TypeError
                      THEN net \ {m}
                      ELSE (net \ {m}) \cup {ReplyMsg(n, m.from, word, m.messageID)}
            /\ UNCHANGED <<inst, consensuses>>
       ELSE /\ inst[n].pc = "idle"
            /\ DoConsensus(n, m.OM, m.index, Get(db[n], FALSE, m.index),
                           m.value, m.peers, m.due,
                           [node |-> m.from, id |-> m.messageID])
            /\ net' = net \ {m}
    /\ UNCHANGED <<now, db, lying, known, runs, sets, fin, consoleOut>>
    /\ UNCHANGED memRest

\* consensus_received: at OM = 0, or when lying, the node answers db.get;
\* otherwise its handler thread runs the sub-consensus at OM - 1 with the
\* sender's peers and deadline
ConsensusReceived(m) ==
    /\ m.command = "CONSENSUS"
    /\ LET n == m.to IN
       IF m.OM = 0 \/ lying[n]
       THEN LET word == Get(db[n], lying[n], m.index) IN
            /\ net' = IF word = TypeError
                      THEN net \ {m}
                      ELSE (net \ {m}) \cup {ReplyMsg(n, m.from, word, m.messageID)}
            /\ UNCHANGED <<inst, consensuses>>
       ELSE /\ inst[n].pc = "idle"
            /\ DoConsensus(n, m.OM - 1, m.index, Get(db[n], FALSE, m.index),
                           m.value, m.peers, m.due,
                           [node |-> m.from, id |-> m.messageID])
            /\ net' = net \ {m}
    /\ UNCHANGED <<now, db, lying, known, runs, sets, fin, consoleOut>>
    /\ UNCHANGED memRest

\* a notify that sets the event at the first reply
NotifyEager(c, value) ==
    [c EXCEPT !.replies = CounterAdd(c.replies, value),
              !.arrivals = IF c.pc \in {"registered", "wait"}
                           THEN Append(c.arrivals, value) ELSE c.arrivals,
              !.done_waiting = TRUE]

\* Consensus.notify: the value is counted; the event is set when the count
\* equals the number of peers
Notify(c, value) ==
    LET r == CounterAdd(c.replies, value) IN
    [c EXCEPT !.replies = r,
              !.arrivals = IF c.pc \in {"registered", "wait"}
                           THEN Append(c.arrivals, value) ELSE c.arrivals,
              !.done_waiting = c.done_waiting
                               \/ CounterTotal(r) = Cardinality(c.peers)]

\* consensus_reply_received: the instance is looked up by reply-to and
\* notified; a miss is dropped.  find_peer(*addr) compares the gossiped
\* host with the datagram's source host and finds no peer.
ConsensusReplyReceived(m) ==
    /\ m.command = "CONSENSUS-REPLY"
    /\ LET n == m.to IN
       inst' = IF m.replyTo \in consensuses[n] /\ inst[n].id = m.replyTo
               THEN [inst EXCEPT ![n] = Notify(inst[n], m.value)]
               ELSE inst
    /\ net' = net \ {m}
    /\ UNCHANGED <<now, db, lying, known, consensuses, runs, sets, fin,
                   consoleOut>>
    /\ UNCHANGED memRest

(***************************************************************************)
(* Scenarios S5 and S6: four nodes that know each other, "apple" at index  *)
(* 0 of the honest ones, at most one liar (the nodes are interchangeable,   *)
(* so it is node 4) holding some word, no datagram lost and no wait        *)
(* expiring                                                                *)
(***************************************************************************)
Mesh == [n \in Nodes |-> Nodes \ {n}]

ScenarioInit ==
    /\ MemInit
    /\ ConsIdle
    /\ known = Mesh
    /\ \E liars \in {{}, {4}} :
       \E w \in {"apple", "pear"} :
          /\ lying = [n \in Nodes |-> n \in liars]
          /\ db = [n \in Nodes |->
                     DbSet(EmptyDb, 0, IF n \in liars THEN w ELSE "apple")]

NextScenario ==
    \/ \E n \in Nodes : StartConsensus(n, 0)
    \/ \E n \in Nodes : Send(n)
    \/ \E n \in Nodes : Tally(n, FALSE)
    \/ \E n \in Nodes : Finish(n)
    \/ \E m \in net : ConsensusReceived(m)
    \/ \E m \in net : ConsensusReplyReceived(m)

SpecScenario == ScenarioInit /\ [][NextScenario]_vars

(***************************************************************************)
(* Consensus on a network that loses datagrams, with the clock, expiring   *)
(* waits and SET datagrams arriving meanwhile                              *)
(***************************************************************************)
\* a SET datagram is handled: db.set(index, value), no acknowledgement
SetReceived(n, i, w) ==
    /\ sets < MaxSets
    /\ sets' = sets + 1
    /\ db' = [db EXCEPT ![n] = DbSet(db[n], i, w)]
    /\ UNCHANGED <<now, lying, known, consensuses, inst, net, runs, fin,
                   consoleOut>>
    /\ UNCHANGED memRest

\* a second passes.  Local steps take no time, and a wait ends when its
\* event is set or its timeout is reached, so the clock does not pass either.
ConsTick ==
    /\ now < MaxConsTime
    /\ \A n \in Nodes :
          \/ inst[n].pc = "idle"
          \/ /\ inst[n].pc = "wait"
             /\ ~inst[n].done_waiting
             /\ WAIT_FOR_DEN * now < inst[n].wake
    /\ now' = now + 1
    /\ UNCHANGED consVars
    /\ UNCHANGED memRest

\* nodes 1 and 2 store "apple" at index 0, nodes 3 and 4 "pear"; node 1
\* knows the other three (OM = 1), the others know two peers (OM = 0)
Star == [n \in Nodes |->
           IF n = 1 THEN {2, 3, 4} ELSE IF n = 2 THEN {1, 3} ELSE {1, 2}]

ConsInit ==
    /\ MemInit
    /\ ConsIdle
    /\ known = Star
    /\ lying = [n \in Nodes |-> FALSE]
    /\ db = [n \in Nodes |->
               DbSet(EmptyDb, 0, IF n \in {1, 2} THEN "apple" ELSE "pear")]

NextCons ==
    \/ \E n \in Nodes : StartConsensus(n, 0)
    \/ \E n \in Nodes : Send(n)
    \/ \E n \in Nodes : Tally(n, FALSE)
    \/ \E n \in Nodes : Finish(n)
    \/ \E m \in net : ConsensusReceived(m)
    \/ \E m \in net : ConsensusReplyReceived(m)
    \/ SetReceived(3, 0, "pear")

SpecCons == ConsInit /\ [][NextCons]_vars

\* node 4 has crashed and is still in the peer tables: a datagram to it is
\* lost, as any other datagram may be
Up == Nodes \ {4}

\* the operator types at second 0
NextTimed ==
    \/ \E n \in Up : now = 0 /\ StartConsensus(n, 0)
    \/ \E n \in Up : \E delivered \in SUBSET (inst[n].peers \cap Up) :
          SendTo(n, delivered)
    \/ \E n \in Up : Tally(n, TRUE)
    \/ \E n \in Up : Finish(n)
    \/ \E m \in net : ConsensusReceived(m)
    \/ \E m \in net : ConsensusReplyReceived(m)
    \/ ConsTick

SpecTimed == ConsInit /\ [][NextTimed]_vars

Liars == {n \in Nodes : lying[n]}

\* C6: with four honest nodes that know each other and all store "apple" at
\* index 0, and every datagram delivered before the waits expire, index 0 is
\* "apple" on every node at all times, and every word a console consensus
\* hands the operator is "apple".
C6_CleanConsensus ==
    Liars = {} =>
        /\ \A n \in Nodes : GetNoLie(db[n], 0) = "apple"
        /\ \A k \in 1..Len(consoleOut) : consoleOut[k] = "apple"

C6_Witness ==
    /\ Liars = {}
    /\ consoleOut # << >>
    /\ net = {}
    /\ \E n \in Nodes : /\ fin[n].runs > 0 /\ fin[n].console
                        /\ Len(fin[n].arrivals) = 3
    /\ Cardinality({n \in Nodes : fin[n].runs > 0}) = 4

\* C7: with exactly one liar among the four nodes, a consensus on index 0
\* started by an honest node computes "apple" as the plurality of the
\* replies it counted, and index 0 of the initiator is "apple" once the
\* consensus has ended.
C7_OneLiarHonestInitiator ==
    Cardinality(Liars) = 1 =>
        \A n \in Nodes \ Liars :
            (fin[n].runs > 0 /\ fin[n].console) =>
                /\ fin[n].result = "apple"
                /\ GetNoLie(db[n], 0) = "apple"

C7_Witness ==
    /\ Cardinality(Liars) = 1
    /\ \E n \in Nodes \ Liars :
          /\ fin[n].runs > 0 /\ fin[n].console
          /\ Len(fin[n].arrivals) = 3
          /\ \E k \in 1..3 : fin[n].arrivals[k] \in {"apple lie", "pear lie"}
          /\ \E k \in 1..3 : fin[n].arrivals[k] = "apple"

\* the finished instances, and the multiset each one tallied: the replies it
\* counted, in arrival order, then its own `received` value
Finished2 == {n \in Nodes : fin[n].runs > 0}
Tallied(n) == Append(fin[n].arrivals, fin[n].received)

\* C8: the value a do_consensus invocation returns is the plurality of the
\* replies counted for it plus its own `received` value, the first counted
\* among tied values, also when a SET datagram is handled meanwhile.
C8_ReturnIsPlurality ==
    \A n \in Finished2 : fin[n].ret = MostCommon(CounterOf(Tallied(n)))

\* the orders in which the datagrams of a sequence can arrive
Perms(seq) ==
    {[k \in 1..Len(seq) |-> seq[f[k]]] :
        f \in {g \in [1..Len(seq) -> 1..Len(seq)] :
                 \A i, j \in 1..Len(seq) : g[i] = g[j] => i = j}}

\* the result of the instance had its replies arrived in order p
ResultOf(p, rcvd) == MostCommon(CounterOf(Append(p, rcvd)))

\* the highest count of a Counter, and whether one value alone has it
MaxCount(c) == CHOOSE m \in {c[k].cnt : k \in 1..Len(c)} :
                  \A k \in 1..Len(c) : c[k].cnt <= m
Leaders(c) == {c[k].val : k \in {j \in 1..Len(c) : c[j].cnt = MaxCount(c)}}

\* C9 as stated: the result of a consensus instance is the same in whatever
\* order the replies it counted arrive, ties for the highest count included.
C9_OrderIndependent ==
    \A n \in Finished2 :
        \A p \in Perms(fin[n].arrivals) :
            ResultOf(p, fin[n].received) = fin[n].result

\* C9 amended: the result is always a value of the highest count; when one
\* value alone has the highest count the result is that value in whatever
\* order the replies arrive; among tied values it is the one counted first.
C9_OrderIndependentUnlessTied ==
    \A n \in Finished2 :
        LET c == CounterOf(Tallied(n)) IN
        /\ fin[n].result \in Leaders(c)
        /\ Cardinality(Leaders(c)) = 1 =>
              \A p \in Perms(fin[n].arrivals) :
                  ResultOf(p, fin[n].received) = fin[n].result
        /\ \A k \in 1..Len(c) :
              c[k].val \in Leaders(c) /\ c[k].val # fin[n].result =>
                  \E j \in 1..(k - 1) : c[j].val = fin[n].result

C9_Witness ==
    \E n, k \in Finished2 :
        /\ Cardinality(Leaders(CounterOf(Tallied(n)))) = 1
        /\ Cardinality(Perms(fin[n].arrivals)) > 1
        /\ Cardinality(Leaders(CounterOf(Tallied(k)))) > 1
        /\ \E p \in Perms(fin[k].arrivals) :
              ResultOf(p, fin[k].received) # fin[k].result

\* C10: a do_consensus invocation, the initiator's or a recursive one, has
\* returned CONSENSUS_TIME * CONSENSUS_WAIT_FOR after its start at the
\* latest, however many of the replies arrive: a running one is no older
\* than that, and a finished one took no longer.
C10_ReturnsWithinWait ==
    \A n \in Nodes :
        /\ inst[n].pc # "idle" =>
              WAIT_FOR_DEN * (now - inst[n].start)
                  <= CONSENSUS_TIME * WAIT_FOR_NUM
        /\ fin[n].runs > 0 =>
              WAIT_FOR_DEN * (fin[n].end - fin[n].start)
                  <= CONSENSUS_TIME * WAIT_FOR_NUM

C10_Witness ==
    \E n, k \in Finished2 :
        /\ fin[n].console
        /\ Len(fin[n].arrivals) < fin[n].npeers
        /\ WAIT_FOR_DEN * (fin[n].end - fin[n].start)
              = CONSENSUS_TIME * WAIT_FOR_NUM
        /\ ~fin[k].console
        /\ Len(fin[k].arrivals) < fin[k].npeers
        /\ fin[k].start > 0
        /\ fin[k].end > fin[k].start

(***************************************************************************)
(* start_consensus step by step, while the peer table changes              *)
(***************************************************************************)
\* update_peers inserts a peer the node did not know
PeerAdded(n, p) ==
    /\ p \notin known[n] \cup {n}
    /\ known' = [known EXCEPT ![n] = @ \cup {p}]
    /\ UNCHANGED <<now, db, lying, consensuses, inst, net, runs, sets, fin,
                   consoleOut>>
    /\ UNCHANGED memRest

\* a pass of prune_peers pops a stale peer
PeerPruned(n, p) ==
    /\ p \in known[n]
    /\ known' = [known EXCEPT ![n] = @ \ {p}]
    /\ UNCHANGED <<now, db, lying, consensuses, inst, net, runs, sets, fin,
                   consoleOut>>
    /\ UNCHANGED memRest

\* start_consensus evaluates its first argument: determine_OM reads the
\* size of the peer table under the peers lock and releases it
StartDetermineOM(n, i) ==
    /\ runs < MaxRuns
    /\ inst[n].pc = "idle"
    /\ runs' = runs + 1
    /\ inst' = [inst EXCEPT ![n].pc = "om", ![n].OM = DetermineOM(known[n]),
                             ![n].index = i]
    /\ UNCHANGED <<now, db, lying, known, consensuses, net, sets, fin,
                   consoleOut>>
    /\ UNCHANGED memRest

\* start_consensus evaluates the other arguments, db.get(index) and a
\* get_peers() snapshot taken under the peers lock anew, and do_consensus
\* registers the instance
StartRegister(n) ==
    /\ inst[n].pc = "om"
    /\ LET v == Get(db[n], lying[n], inst[n].index) IN
       IF v = TypeError
       THEN /\ inst' = [inst EXCEPT ![n] = [NoInst EXCEPT !.gen = inst[n].gen]]
            /\ UNCHANGED consensuses
       ELSE DoConsensus(n, inst[n].OM, inst[n].index, v, None, known[n],
                        now + CONSENSUS_TIME, NoSrc)
    /\ UNCHANGED <<now, db, lying, known, net, runs, sets, fin, consoleOut>>
    /\ UNCHANGED memRest

\* the tables of nodes 1 and 2 change; the run is followed up to its sends
NextOM ==
    \/ \E n \in {1, 2} : \E p \in Nodes : PeerAdded(n, p)
    \/ \E n \in {1, 2} : \E p \in Nodes : PeerPruned(n, p)
    \/ \E n \in Nodes : StartDetermineOM(n, 0)
    \/ \E n \in Nodes : StartRegister(n)
    \/ \E n \in Nodes : Send(n)

SpecOM == ConsInit /\ [][NextOM]_vars

\* C11: a consensus started from the console runs at level floor(n / 3),
\* n being the number of peers in the snapshot its CONSENSUS datagrams are
\* sent to, also when the peer table changes while start_consensus runs.
C11_LevelOfSnapshot ==
    \A n \in Nodes :
        (inst[n].pc \in {"registered", "wait", "tallied"} /\ inst[n].src = NoSrc)
            => inst[n].OM = Cardinality(inst[n].peers) \div 3

(***************************************************************************)
(* The registry of consensus instances                                     *)
(***************************************************************************)
\* the instance the driver of node n runs, if it runs one
Driving(n) == inst[n].pc \in {"registered", "wait", "tallied"}

\* C12 as stated: an id is in the registry exactly while its driver has
\* registered it and still awaits the replies; once the driver has stopped
\* waiting and computed its result the id is gone.
C12_RegisteredIffAwaiting ==
    \A n \in Nodes :
        consensuses[n] = IF inst[n].pc \in {"registered", "wait"}
                         THEN {inst[n].id} ELSE {}

\* C12 amended: an id is in the registry exactly from its registration,
\* which precedes the sends, until do_consensus pops it, which follows the
\* end of the wait, the tally and the db.set; so every CONSENSUS datagram
\* in flight and every reply to a waiting driver names a registered id,
\* and no id outlives the return of its do_consensus.
C12_RegisteredWhileDriving ==
    /\ \A n \in Nodes :
          consensuses[n] = IF Driving(n) THEN {inst[n].id} ELSE {}
    /\ \A m \in net :
          /\ (m.command = "CONSENSUS" /\ inst[m.from].id = m.messageID)
                => m.messageID \in consensuses[m.from]
          /\ (m.command = "CONSENSUS-REPLY" /\ inst[m.to].pc = "wait"
                /\ inst[m.to].id = m.replyTo)
                => m.replyTo \in consensuses[m.to]

C12_Witness ==
    \E n, k \in Nodes :
        /\ inst[n].pc = "tallied" /\ inst[n].id \in consensuses[n]
        /\ inst[k].pc = "wait"
        /\ \E m \in net : /\ m.command = "CONSENSUS-REPLY" /\ m.to = k
                          /\ m.replyTo = inst[k].id

(***************************************************************************)
(* Consensus while the operator of node 2 types `lie` at some moment: node  *)
(* 1 (OM = 1) and node 3 (OM = 0) on index 0, which holds "apple"          *)
(* everywhere, and node 3 on index 1, which is absent everywhere           *)
(***************************************************************************)
\* console `lie`: Database.lie
Lie(n) ==
    /\ lying' = [lying EXCEPT ![n] = TRUE]
    /\ UNCHANGED <<now, db, known, consensuses, inst, net, runs, sets, fin,
                   consoleOut>>
    /\ UNCHANGED memRest

\* console `truth`: Database.truth
Truth(n) ==
    /\ lying' = [lying EXCEPT ![n] = FALSE]
    /\ UNCHANGED <<now, db, known, consensuses, inst, net, runs, sets, fin,
                   consoleOut>>
    /\ UNCHANGED memRest

LieInit ==
    /\ MemInit
    /\ ConsIdle
    /\ known = Star
    /\ lying = [n \in Nodes |-> FALSE]
    /\ db = [n \in Nodes |-> DbSet(EmptyDb, 0, "apple")]

NextLie ==
    \/ Lie(2)
    \/ \E n \in {1, 3} : StartConsensus(n, 0)
    \/ StartConsensus(3, 1)
    \/ \E n \in Nodes : Send(n)
    \/ \E n \in Nodes : Tally(n, FALSE)
    \/ \E n \in Nodes : Finish(n)
    \/ \E m \in net : ConsensusReceived(m)
    \/ \E m \in net : ConsensusReplyReceived(m)

SpecLie == LieInit /\ [][NextLie]_vars

\* the CONSENSUS datagrams a node answers without a sub-consensus
ShortCircuit(m) == m.command = "CONSENSUS" /\ (m.OM = 0 \/ lying[m.to])

\* C13: the handling of a CONSENSUS datagram with OM = 0, or with any OM on
\* a lying node, registers no instance, sends no CONSENSUS datagram, leaves
\* the database unchanged, and sends exactly one CONSENSUS-REPLY, to the
\* source, with the value db.get(index) and the reply-to of the datagram.
C13_ShortCircuitReplies ==
    [][\A m \in net :
          (ShortCircuit(m) /\ m \notin net') =>
              /\ inst' = inst
              /\ consensuses' = consensuses
              /\ db' = db
              /\ net' \ net = {ReplyMsg(m.to, m.from,
                                        Get(db[m.to], lying[m.to], m.index),
                                        m.messageID)}]_vars

(***************************************************************************)
(* The completion signal                                                   *)
(***************************************************************************)
\* the CONSENSUS-REPLY datagrams counted for the instance of node n: the
\* total of its Counter, less the own `received` value once it was tallied
RepliesCounted(n) ==
    CounterTotal(inst[n].replies) - (IF inst[n].pc = "tallied" THEN 1 ELSE 0)

\* C14 as stated: the completion signal of an instance is set only when all
\* the peers of its snapshot have replied, one counted reply each.
C14_SignalOnlyWhenAllReplied ==
    \A n \in Nodes :
        (Driving(n) /\ inst[n].done_waiting)
            => RepliesCounted(n) = Cardinality(inst[n].peers)

\* C14 amended: while the driver waits, the signal is set exactly when the
\* counted replies number the peers of the instance, and no more replies
\* than peers are counted; after the wait the Counter also holds the own
\* `received` value, and a late reply that brings its total to the number
\* of peers sets the signal although not every peer has replied.
C14_SignalWhenTotalReachesPeers ==
    \A n \in Nodes :
        /\ inst[n].pc \in {"registered", "wait"} =>
              /\ inst[n].done_waiting
                    <=> CounterTotal(inst[n].replies) = Cardinality(inst[n].peers)
              /\ RepliesCounted(n) <= Cardinality(inst[n].peers)
        /\ (inst[n].pc = "tallied" /\ inst[n].done_waiting) =>
              CounterTotal(inst[n].replies) >= Cardinality(inst[n].peers)

C14_Witness ==
    \E n \in Nodes :
        /\ inst[n].pc = "tallied"
        /\ inst[n].done_waiting
        /\ Len(inst[n].arrivals) < Cardinality(inst[n].peers)
        /\ CounterTotal(inst[n].replies) = Cardinality(inst[n].peers)

(***************************************************************************)
(* The database bootstrap of node 1 (DBServer.init_db), with SET           *)
(* datagrams, console set, QUERY-REPLY datagrams and a changing peer table *)
(***************************************************************************)
\* what no action of the bootstrap specification changes
bootFrame == <<memVars, lying, consensuses, inst, runs, fin, consoleOut,
               lockVars, stopVars>>

\* an item of a reply that is neither a str nor None
NotAWord == "<int>"

\* the decoded QUERY-REPLY datagrams that reach node 1: a snapshot with a
\* word, a list that is too short, a list with an item that is no word,
\* and something that is no list
GoodReply == [list |-> TRUE, items |-> DbSet(EmptyDb, 0, "cat")]
QueryReplies ==
    {GoodReply,
     [list |-> TRUE, items |-> <<"cat">>],
     [list |-> TRUE, items |-> DbSet(EmptyDb, 0, NotAWord)],
     [list |-> FALSE, items |-> << >>]}

\* a validation that accepts every reply
ValidAlways(r) == TRUE

\* the assertions of init_db on a reply
Valid(r) ==
    /\ r.list
    /\ Len(r.items) = DB_SIZE
    /\ \A k \in 1..Len(r.items) : r.items[k] # NotAWord

\* any(self.db.all()): None and the empty string are falsy
AnyWord(dbn) == \E k \in 1..Len(dbn) : dbn[k] \notin {None, ""}

\* update_peers creates a Peer object for node p in the table of node 1
PeerJoin(p) ==
    /\ joins < MaxJoins
    /\ \A o \in peerObjs : o[1] # p
    /\ joins' = joins + 1
    /\ peerObjs' = peerObjs \cup {<<p, joins + 1>>}
    /\ known' = [known EXCEPT ![1] = @ \cup {p}]
    /\ UNCHANGED <<db, net, sets, boot, queue>>
    /\ UNCHANGED bootFrame

\* prune_peers pops a Peer object from the table of node 1
PeerLeave(o) ==
    /\ o \in peerObjs
    /\ peerObjs' = peerObjs \ {o}
    /\ known' = [known EXCEPT ![1] = @ \ {o[1]}]
    /\ UNCHANGED <<db, net, sets, boot, queue, joins>>
    /\ UNCHANGED bootFrame

\* query_reply_received: the decoded database goes into the queue
QueryReplyReceived(r) ==
    /\ Len(queue) < MaxQueue
    /\ queue' = Append(queue, r)
    /\ UNCHANGED <<db, known, net, sets, boot, peerObjs, joins>>
    /\ UNCHANGED bootFrame

\* init_db: random.choice on an empty table raises IndexError
BootNoPeer ==
    /\ boot.pc = "pick"
    /\ peerObjs = {}
    /\ boot' = [boot EXCEPT !.count = @ + 1, !.failed = @ + 1,
                            !.pc = IF boot.count + 1 >= GIVE_UP
                                   THEN "done" ELSE "pick"]
    /\ UNCHANGED <<db, known, net, sets, peerObjs, joins, queue>>
    /\ UNCHANGED bootFrame

\* init_db: a peer is chosen.  A bad one is counted; a new one is sent
\* QUERY after the queue is drained.
BootPick(o) ==
    /\ boot.pc = "pick"
    /\ o \in peerObjs
    /\ IF o \in boot.bad_peers
       THEN /\ boot' = [boot EXCEPT
                          !.count = @ + 1,
                          !.pc = IF \/ Cardinality(boot.bad_peers)
                                         = Cardinality(peerObjs)
                                    \/ boot.count + 1 >= GIVE_UP
                                 THEN "done" ELSE "pick"]
            /\ queue' = queue
       ELSE /\ boot' = [boot EXCEPT !.pc = "wait", !.peer = o]
            /\ queue' = << >>
    /\ UNCHANGED <<db, known, net, sets, peerObjs, joins>>
    /\ UNCHANGED bootFrame

\* init_db: query_reply_queue.get(timeout= 5) raises Empty
BootTimeout ==
    /\ boot.pc = "wait"
    /\ queue = << >>
    /\ boot' = [boot EXCEPT !.pc = "pick", !.failed = @ + 1,
                            !.bad_peers = @ \cup {boot.peer}]
    /\ UNCHANGED <<db, known, net, sets, peerObjs, joins, queue>>
    /\ UNCHANGED bootFrame

\* init_db: a reply comes out of the queue and is validated
BootReply ==
    /\ boot.pc = "wait"
    /\ queue # << >>
    /\ queue' = Tail(queue)
    /\ boot' = IF Valid(Head(queue))
               THEN [boot EXCEPT !.pc = "check", !.db = Head(queue)]
               ELSE [boot EXCEPT !.pc = "pick", !.failed = @ + 1,
                                 !.bad_peers = @ \cup {boot.peer}]
    /\ UNCHANGED <<db, known, net, sets, peerObjs, joins>>
    /\ UNCHANGED bootFrame

\* init_db: `if not any(self.db.all())`, evaluated under the db lock
BootCheck ==
    /\ boot.pc = "check"
    /\ boot' = [boot EXCEPT !.pc = IF AnyWord(db[1]) THEN "done" ELSE "reset"]
    /\ UNCHANGED <<db, known, net, sets, peerObjs, joins, queue>>
    /\ UNCHANGED bootFrame

\* init_db: self.db.reset(db), under the db lock taken anew
BootReset ==
    /\ boot.pc = "reset"
    /\ db' = [db EXCEPT ![1] = boot.db.items]
    /\ boot' = [boot EXCEPT !.pc = "done", !.resets = @ + 1,
                            !.overwrote = \E k \in 1..Len(db[1]) :
                                             db[1][k] # None]
    /\ UNCHANGED <<known, net, sets, peerObjs, joins, queue>>
    /\ UNCHANGED bootFrame

\* console `set i w`: send_set writes the word locally, then broadcasts SET
\* to every known peer
SendSet(n, i, w) ==
    /\ sets < MaxSets
    /\ sets' = sets + 1
    /\ db' = [db EXCEPT ![n] = DbSet(db[n], i, w)]
    /\ net' = net \cup {[command |-> "SET", to |-> p, from |-> n,
                         index |-> i, value |-> w] : p \in known[n]}
    /\ UNCHANGED <<known, boot, peerObjs, joins, queue>>
    /\ UNCHANGED bootFrame

\* a broadcast SET datagram is handled by its recipient
SetDelivered(m) ==
    /\ m.command = "SET"
    /\ db' = [db EXCEPT ![m.to] = DbSet(db[m.to], m.index, m.value)]
    /\ net' = net \ {m}
    /\ UNCHANGED <<known, sets, boot, peerObjs, joins, queue>>
    /\ UNCHANGED bootFrame

NextBoot ==
    \/ \E p \in {2, 3} : PeerJoin(p)
    \/ \E o \in peerObjs : PeerLeave(o)
    \/ \E r \in QueryReplies : QueryReplyReceived(r)
    \/ BootNoPeer
    \/ \E o \in peerObjs : BootPick(o)
    \/ BootTimeout
    \/ BootReply
    \/ BootCheck
    \/ BootReset
    \/ SetReceived(1, 0, "dog")
    \/ SendSet(1, 1, "emu")
    \/ \E m \in net : SetDelivered(m)

SpecBoot == Init /\ [][NextBoot]_vars

C18_GivesUpWithinTen == boot.failed <= GIVE_UP

\* C19: the bootstrap replaces the database at most once, and only when
\* every local entry is absent at the moment of the replacement.
C19_ResetOnlyOverAbsent == boot.resets <= 1 /\ ~boot.overwrote

(***************************************************************************)
(* The lying flag of the database                                          *)
(***************************************************************************)
\* Database.all: a copy of the list, unaffected by lying
All(dbn) == [k \in 1..DB_SIZE |-> dbn[k]]

Isolated == [n \in Nodes |-> {}]

\* every node stores "apple" at index 0 and nothing else, and knows no peer
DbInit ==
    /\ MemInit
    /\ ConsIdle
    /\ known = Isolated
    /\ lying = [n \in Nodes |-> FALSE]
    /\ db = [n \in Nodes |-> DbSet(EmptyDb, 0, "apple")]

\* the operator of nodes 1 and 2 types lie, truth and consensus, and SET
\* datagrams arrive; a consensus of a node without peers ends at its timeout
NextDb ==
    \/ \E n \in {1, 2} : Lie(n)
    \/ \E n \in {1, 2} : Truth(n)
    \/ \E n \in {1, 2} : \E i \in {0, 1} : SetReceived(n, i, "pear")
    \/ \E n \in {1, 2} : \E i \in {0, 1} : StartConsensus(n, i)
    \/ \E n \in {1, 2} : Send(n)
    \/ \E n \in {1, 2} : Tally(n, TRUE)
    \/ \E n \in {1, 2} : Finish(n)
    \/ ConsTick

SpecDb == DbInit /\ [][NextDb]_vars

\* C16: on a lying node get(i) is the stored word with " lie" appended once,
\* on a truthful node it is the stored word; lie() and truth() change the
\* flag of one node and nothing else, so a second lie() changes nothing; and
\* a get changes neither the stored words nor the flag.
C16_LyingAlgebra ==
    /\ [](\A n \in Nodes : \A i \in 0..(DB_SIZE - 1) :
             Get(db[n], lying[n], i) =
                IF lying[n] THEN GetNoLie(db[n], i) \o " lie"
                ELSE All(db[n])[i + 1])
    /\ [][/\ lying' # lying =>
                /\ db' = db
                /\ \E n \in Nodes : lying' = [lying EXCEPT ![n] = ~lying[n]]
          /\ runs' # runs => (db' = db /\ lying' = lying)]_vars

\* C17: a lying node that handles a CONSENSUS datagram answers it with a
\* CONSENSUS-REPLY to its sender, whatever the index and whatever the
\* database holds there, an absent entry included.
C17_LiarAlwaysReplies ==
    [][\A m \in net :
          (m.command = "CONSENSUS" /\ lying[m.to] /\ m \notin net') =>
              \E r \in net' \ net :
                  /\ r.command = "CONSENSUS-REPLY"
                  /\ r.from = m.to
                  /\ r.to = m.from
                  /\ r.replyTo = m.messageID]_vars

(***************************************************************************)
(* The locks.  Every task that sends or receives on the UDP socket is a    *)
(* straight line of lock acquisitions and releases, socket calls and       *)
(* waits; up to MaxActive of them run at once.                             *)
(***************************************************************************)
MaxActive == 3

Acquire(l) == [op |-> "acquire", lock |-> l]
Release(l) == [op |-> "release", lock |-> l]
\* sendto or recvfrom
SockCall == [op |-> "socket", lock |-> "sock"]
\* Event.wait or Queue.get
SignalWait == [op |-> "wait", lock |-> "signal"]

\* a gossip round that keeps the peer table locked while it sends
StartGossipHolding ==
    <<Acquire("peers"), Acquire("sock"), SockCall, Release("sock"),
      Release("peers")>>

\* start_gossip: get_peers, then the sends of GossipServer.gossip
StartGossip ==
    <<Acquire("peers"), Release("peers"),
      Acquire("sock"), SockCall, Release("sock")>>

\* the body of each task, in program order
Program(t) ==
    CASE t = "recv" ->
           <<Acquire("sock"), SockCall, Release("sock")>>
      [] t = "gossip" -> StartGossip
      [] t = "gossip_received" ->
           <<Acquire("gossips"), Acquire("peers"), Release("peers"),
             Release("gossips"),
             Acquire("sock"), SockCall, SockCall, Release("sock")>>
      [] t = "send_set" ->
           <<Acquire("db"), Release("db"),
             Acquire("sock"), Acquire("peers"), Release("peers"), SockCall,
             Release("sock")>>
      [] t = "execute" ->
           <<Acquire("peers"), Release("peers"), Acquire("db"), Release("db"),
             Acquire("peers"), Release("peers"),
             Acquire("consensuses"), Release("consensuses"),
             Acquire("sock"), SockCall, Release("sock"),
             SignalWait,
             Acquire("replies"), Release("replies"),
             Acquire("db"), Release("db"),
             Acquire("consensuses"), Release("consensuses")>>
      [] t = "consensus_received" ->
           <<Acquire("db"), Release("db"),
             Acquire("sock"), SockCall, Release("sock")>>
      [] t = "init_db" ->
           <<Acquire("peers"), Release("peers"),
             Acquire("sock"), SockCall, Release("sock"),
             SignalWait,
             Acquire("db"), Release("db"), Acquire("db"), Release("db")>>
      [] t = "query_received" ->
           <<Acquire("db"), Release("db"),
             Acquire("sock"), SockCall, Release("sock")>>
      [] t = "prune_peers" ->
           <<Acquire("peers"), Release("peers")>>
      [] t = "gossip_reply_received" ->
           <<Acquire("peers"), Release("peers")>>
      [] t = "consensus_reply_received" ->
           <<Acquire("consensuses"), Release("consensuses"),
             Acquire("replies"), Release("replies"),
             Acquire("peers"), Release("peers")>>

\* the operation task t is about to do
NextOp(t) == Program(t)[tpc[t]]

\* the position after the operation: 0 when the task is over
Advance(t) == IF tpc[t] = Len(Program(t)) THEN 0 ELSE tpc[t] + 1

lockFrame == <<memVars, db, lying, known, consensuses, inst, net, runs, sets,
               fin, consoleOut, bootVars, stopVars>>

\* a thread is started, or a loop comes round again
TaskStart(t) ==
    /\ tpc[t] = 0
    /\ Cardinality({u \in Tasks : tpc[u] > 0}) < MaxActive
    /\ tpc' = [tpc EXCEPT ![t] = 1]
    /\ UNCHANGED lockOwner
    /\ UNCHANGED lockFrame

\* Lock.acquire: blocks while another task holds the lock
LockAcquire(t) ==
    /\ tpc[t] > 0
    /\ NextOp(t).op = "acquire"
    /\ lockOwner[NextOp(t).lock] = "free"
    /\ lockOwner' = [lockOwner EXCEPT ![NextOp(t).lock] = t]
    /\ tpc' = [tpc EXCEPT ![t] = Advance(t)]
    /\ UNCHANGED lockFrame

\* Lock.release at the end of the with block
LockRelease(t) ==
    /\ tpc[t] > 0
    /\ NextOp(t).op = "release"
    /\ lockOwner' = [lockOwner EXCEPT ![NextOp(t).lock] = "free"]
    /\ tpc' = [tpc EXCEPT ![t] = Advance(t)]
    /\ UNCHANGED lockFrame

\* sendto, recvfrom, and the waits, which take no lock
TaskStep(t) ==
    /\ tpc[t] > 0
    /\ NextOp(t).op \in {"socket", "wait"}
    /\ tpc' = [tpc EXCEPT ![t] = Advance(t)]
    /\ UNCHANGED lockOwner
    /\ UNCHANGED lockFrame

NextLock ==
    \/ \E t \in Tasks : TaskStart(t)
    \/ \E t \in Tasks : LockAcquire(t)
    \/ \E t \in Tasks : LockRelease(t)
    \/ \E t \in Tasks : TaskStep(t)

SpecLock == Init /\ [][NextLock]_vars

\* C20: a task that holds the socket mutex is about to call the socket or
\* to release the mutex: it is never about to acquire another lock or to
\* wait on a signal.
C20_SockLockOnlyAroundSocket ==
    \A t \in Tasks :
        (tpc[t] > 0 /\ lockOwner["sock"] = t) =>
            \/ NextOp(t).op = "socket"
            \/ NextOp(t) = Release("sock")

(***************************************************************************)
(* Shutdown: Server.start leaves its loop and runs super()._stop(), which  *)
(* walks the method resolution order of Server                             *)
(***************************************************************************)
\* the class statements of server.py and cli_server.py
Bases(c) ==
    CASE c = "Server" -> <<"GossipServer", "PeerServer", "CLIServer">>
      [] c = "GossipServer" -> <<"BaseServer">>
      [] c = "PeerServer" -> <<"BaseServer">>
      [] c = "BaseServer" -> <<"AbstractBaseServer">>
      [] c = "CLIServer" -> <<"AbstractBaseServer">>
      [] OTHER -> << >>

InTail(x, q) == \E k \in 2..Len(q) : q[k] = x

\* the merge of Python's C3 linearisation: take the first head that is in
\* no tail, and drop it from every list
RECURSIVE C3Merge(_)
C3Merge(lists) ==
    LET live == SelectSeq(lists, LAMBDA q : q # << >>) IN
    IF live = << >> THEN << >>
    ELSE LET good == {k \in 1..Len(live) :
                         \A j \in 1..Len(live) : ~InTail(live[k][1], live[j])}
             k0 == CHOOSE k \in good : \A j \in good : k <= j
             h == live[k0][1]
         IN <<h>> \o C3Merge([j \in 1..Len(live) |->
                                 IF live[j][1] = h THEN Tail(live[j])
                                 ELSE live[j]])

\* type.__mro__, without object
RECURSIVE Mro(_)
Mro(c) ==
    <<c>> \o C3Merge([k \in 1..Len(Bases(c)) |-> Mro(Bases(c)[k])]
                     \o <<Bases(c)>>)

\* the classes whose _stop the super() calls of Server.start reach, in order
StopChain == Tail(Mro("Server"))

stopFrame == <<now, peers, gossips, gossipsLock, hpc, hdata, hpeers, hlast,
               hpeer, received, admits, fwdEvents, gossipReplies, lastAdmit,
               lastForward, selfTalk, prunerPc, pruneWake, kicked, db, lying,
               known, consensuses, inst, net, runs, sets, fin, consoleOut,
               bootVars, lockVars>>

\* the selector loop is left by an exception and the finally clause begins
SelectorExit ==
    /\ stop.phase = "running"
    /\ stop' = [stop EXCEPT !.phase = "descending", !.depth = 1]
    /\ UNCHANGED gardener_quit
    /\ UNCHANGED stopFrame

\* every _stop begins with super()._stop(); that of AbstractBaseServer is
\* `pass` and returns
StopSuper ==
    /\ stop.phase = "descending"
    /\ stop' = IF StopChain[stop.depth] = "AbstractBaseServer"
               THEN [stop EXCEPT !.phase = "unwinding",
                                 !.depth = stop.depth - 1]
               ELSE [stop EXCEPT !.depth = stop.depth + 1]
    /\ UNCHANGED gardener_quit
    /\ UNCHANGED stopFrame

\* the statement of a _stop after its super() call has returned
StopOwn ==
    /\ stop.phase = "unwinding"
    /\ LET c == StopChain[stop.depth]
           after == [stop EXCEPT !.depth = stop.depth - 1,
                                 !.phase = IF stop.depth = 1 THEN "stopped"
                                           ELSE "unwinding"]
       IN
       /\ stop' = CASE c = "CLIServer" -> [after EXCEPT !.cli_closed = TRUE]
                    [] c = "BaseServer" -> [after EXCEPT !.sock_closed = TRUE]
                    [] c = "GossipServer" ->
                         [after EXCEPT !.gossip_quit = TRUE]
                    [] OTHER -> after
       /\ gardener_quit' = IF c = "PeerServer" THEN TRUE ELSE gardener_quit
    /\ UNCHANGED stopFrame

\* the gardener and the handlers of GOSSIP_REPLY go on while the node stops
NextStop ==
    \/ SelectorExit
    \/ StopSuper
    \/ StopOwn
    \/ PrunePass
    \/ PruneWake
    \/ \E n \in 0..MaxPruneNames : GossipReplyReceived(n)
    \/ Tick(MaxPruneTime)

SpecStop == Init /\ [][NextStop]_vars

\* C21: on shutdown the UDP socket is closed last: when it is closed, the
\* quit flags of the gossiper and of the gardener are set and the console
\* listener is closed.
C21_SocketClosedLast ==
    stop.sock_closed =>
        /\ stop.gossip_quit
        /\ gardener_quit
        /\ stop.cli_closed

(***************************************************************************)
(* The peer table under GOSSIP handlers, GOSSIP_REPLY handlers and the     *)
(* gardener together                                                       *)
(***************************************************************************)
MaxTableDatagrams == 3

TableDatagrams ==
    GossipsOf(0..MaxPruneNames, 1..MaxIds)
        \cup GossipRepliesOf(0..MaxPruneNames)

NextTable ==
    \/ \E d \in TableDatagrams : HandleMessage(1, d, MaxTableDatagrams)
    \/ Scan(1)
    \/ Admit(1)
    \/ Forward(1)
    \/ PrunePass
    \/ PruneWake
    \/ Tick(MaxPruneTime)

SpecTable == Init /\ [][NextTable]_vars

\* the entries of self.peers.obj as (name, last) pairs
Entries == {<<n, peers[n]>> : n \in DOMAIN peers}

\* C22: the peer table has at most one entry per name, and the last-seen
\* time of an entry that stays in the table never decreases.
C22_PeerTable ==
    /\ [](\A e, f \in Entries : e[1] = f[1] => e = f)
    /\ [][\A n \in DOMAIN peers \cap DOMAIN peers' :
             peers'[n] >= peers[n]]_vars

\* the entry of peer 1 went through update_peers twice and no pass of the
\* gardener could have removed it
C22_Witness ==
    /\ now < PRUNE_INTERVAL
    /\ 1 \in DOMAIN peers
    /\ peers[1] > 0
    /\ admits[<<1, 1>>] = 1
    /\ admits[<<1, 2>>] = 1

\* the locks task t holds
Held(t) == {l \in Locks : lockOwner[l] = t}

\* task t is blocked in Lock.acquire
Blocked(t) ==
    /\ tpc[t] > 0
    /\ NextOp(t).op = "acquire"
    /\ lockOwner[NextOp(t).lock] # "free"

\* the pairs (held, wanted) in which locks are nested
NestingOrders == {<<"gossips", "peers">>, <<"sock", "peers">>}

\* C23: no set of tasks waits for locks that only its own members hold;
\* a task that holds a lock acquires another only in the orders gossip
\* cache then peer table and UDP socket then peer table; and no task waits
\* on a completion signal or on the reply queue while it holds a lock.
C23_NoDeadlock ==
    /\ \A D \in SUBSET {t \in Tasks : Blocked(t)} :
          D # {} => \E t \in D : lockOwner[NextOp(t).lock] \notin D
    /\ \A t \in Tasks :
          (tpc[t] > 0 /\ NextOp(t).op = "acquire") =>
              \A h \in Held(t) : <<h, NextOp(t).lock>> \in NestingOrders
    /\ \A t \in Tasks :
          (tpc[t] > 0 /\ NextOp(t).op = "wait") => Held(t) = {}

\* send_set holds the socket mutex and is blocked on the peer table, which
\* gossip_received holds inside the gossip cache lock
C23_Witness ==
    /\ Held("send_set") = {"sock"}
    /\ Blocked("send_set")
    /\ Held("gossip_received") = {"gossips", "peers"}

\* C24: when the wait of a console-started consensus ends with no reply
\* counted, the multiset holds only the initiator's own `received` value,
\* which is absent; absent is the result, it is written over the word of
\* the index, and it is what the operator gets.
C24_NoReplyWritesAbsent ==
    /\ [][\A n \in Nodes :
             (/\ inst[n].pc = "wait"
              /\ inst'[n].pc = "tallied"
              /\ inst[n].src = NoSrc
              /\ inst[n].replies = << >>) =>
                 /\ inst'[n].replies = <<[val |-> None, cnt |-> 1]>>
                 /\ inst'[n].result = None
                 /\ GetNoLie(db[n], inst[n].index) # None
                 /\ GetNoLie(db'[n], inst[n].index) = None]_vars
    /\ [](\A n \in Nodes :
             (fin[n].runs > 0 /\ fin[n].console /\ fin[n].arrivals = << >>) =>
                 fin[n].ret = None)

\* every datagram of the console consensus of node 1 was lost: its wait
\* expired, and its word at index 0 is gone
C24_Witness ==
    /\ fin[1].runs > 0
    /\ fin[1].console
    /\ fin[1].npeers = 3
    /\ fin[1].arrivals = << >>
    /\ fin[1].ret = None
    /\ GetNoLie(db[1], 0) = None
    /\ consoleOut = <<None>>

\* the instance of the node that sent the CONSENSUS datagram which node r
\* recursed on, while that instance is still the one its driver runs
Parent(r) == inst[inst[r].src.node]

Recursing(r) ==
    /\ inst[r].pc \in {"wait", "tallied"}
    /\ inst[r].src # NoSrc
    /\ Parent(r).id = inst[r].src.id

\* a CONSENSUS-REPLY in flight that carries the result of a sub-consensus
\* which ended by timeout, for an instance that is still registered
LateReply(m) ==
    /\ m.command = "CONSENSUS-REPLY"
    /\ fin[m.from].runs > 0
    /\ ~fin[m.from].console
    /\ fin[m.from].timed_out
    /\ inst[m.to].id = m.replyTo
    /\ inst[m.to].OM > 0

RepliesUp(n) ==
    {m \in net : /\ m.command = "CONSENSUS-REPLY"
                 /\ m.from = n
                 /\ m.replyTo = inst[n].src.id}

\* C26: a non-lying node that recursed on a CONSENSUS datagram with OM > 0
\* writes the plurality of its sub-consensus into its db[index] before it
\* sends its CONSENSUS-REPLY; its sub-consensus runs at one level less than
\* the datagram, and no level is below 0, so a recursion started at level m
\* nests at most m levels.
C26_RecursionWritesAndDescends ==
    /\ [][\A n \in Nodes :
             (inst[n].src # NoSrc /\ inst[n].pc = "wait"
                 /\ inst'[n].pc = "tallied") =>
                    /\ inst'[n].result = MostCommon(inst'[n].replies)
                    /\ GetNoLie(db'[n], inst[n].index) = inst'[n].result
                    /\ RepliesUp(n)' = {}]_vars
    /\ [](\A r \in Nodes :
             Recursing(r) =>
                 /\ inst[r].OM = Parent(r).OM - 1
                 /\ inst[r].OM >= 0)
    /\ [](\A m \in net :
             m.command = "CONSENSUS" =>
                 /\ m.OM >= 0
                 /\ inst[m.from].src # NoSrc => m.OM = inst[m.from].OM)

\* node 3, which stored "pear", took part in the consensus node 1 started
\* at level 1, and its sub-consensus at level 0 left "apple" at index 0
C26_Witness ==
    /\ sets = 0
    /\ fin[3].runs > 0
    /\ ~fin[3].console
    /\ fin[3].result = "apple"
    /\ GetNoLie(db[3], 0) = "apple"
    /\ inst[1].OM = 1
    /\ inst[1].pc \in {"wait", "tallied"}

=============================================================================
